---- MODULE Spec2Model ----
(***************************************************************************)
(* Model of the RefereeBias preprocessing scripts:                         *)
(*   data/dbscan_preprocessing.py  canonicalize_referee and                *)
(*                                 create_ref_team_dataframe               *)
(*   data/data_processing.py       the column pruner                       *)
(* Strings are sequences of one-character strings, so that lower(),        *)
(* strip(), replace(), title() and string comparison are computed.         *)
(***************************************************************************)
EXTENDS Integers, Sequences, FiniteSets

VARIABLES
    pc,           \* position in create_ref_team_dataframe
    df,           \* the table read from input_csv
    df_top6,      \* matches involving an allow-listed team
    top_30_refs,  \* the retained referees, ranked
    df_expanded,  \* one row per allow-listed side
    df_grouped,   \* aggregated, then de-duplicated, reindexed, scaled
    error,        \* the ERROR line printed, "" when none
    output_csv,   \* the table written to output_csv, <<>> when none
    p_pc,         \* position in the pruning script
    p_df,         \* the pruner's table
    p_raw,        \* the table the pruner read
    p_first,      \* the table after the first complete pruning
    p_runs        \* prunings started

vars == <<pc, df, df_top6, top_30_refs, df_expanded, df_grouped, error,
          output_csv, p_pc, p_df, p_raw, p_first, p_runs>>

pipeline_vars == <<pc, df, df_top6, top_30_refs, df_expanded, df_grouped,
                   error, output_csv>>

prune_vars == <<p_pc, p_df, p_raw, p_first, p_runs>>

---------------------------------------------------------------------------
(* Characters and Python's str operations.                                 *)

\* The characters of the model in code-point order.
Chars ==
    << " ", ".",
       "A", "B", "C", "D", "E", "F", "G", "H", "I", "J", "K", "L", "M",
       "N", "O", "P", "Q", "R", "S", "T", "U", "V", "W", "X", "Y", "Z",
       "a", "b", "c", "d", "e", "f", "g", "h", "i", "j", "k", "l", "m",
       "n", "o", "p", "q", "r", "s", "t", "u", "v", "w", "x", "y", "z" >>

CharSet == {Chars[i] : i \in 1..Len(Chars)}

\* Rank of a character in code-point order.
Ord == [c \in CharSet |-> CHOOSE i \in 1..Len(Chars) : Chars[i] = c]

IsUpper(c) == Ord[c] \in 3..28

IsLower(c) == Ord[c] \in 29..54

IsCased(c) == IsUpper(c) \/ IsLower(c)

LowerChar(c) == IF IsUpper(c) THEN Chars[Ord[c] + 26] ELSE c

UpperChar(c) == IF IsLower(c) THEN Chars[Ord[c] - 26] ELSE c

\* str.lower()
StrLower(s) == [i \in 1..Len(s) |-> LowerChar(s[i])]

\* str.replace('.', '')
IsNotDot(c) == c # "."

StrRemoveDots(s) == SelectSeq(s, IsNotDot)

\* str.strip(): leading and trailing whitespace removed.
StrStrip(s) ==
    LET keep == {i \in 1..Len(s) : s[i] # " "}
    IN  IF keep = {} THEN <<>>
        ELSE LET lo == CHOOSE i \in keep : \A j \in keep : i <= j
                 hi == CHOOSE i \in keep : \A j \in keep : j <= i
             IN  SubSeq(s, lo, hi)

\* sub in s
StrContains(s, sub) ==
    \E i \in 1..(Len(s) - Len(sub) + 1) : SubSeq(s, i, i + Len(sub) - 1) = sub

\* str.title(): a cased character is upper-cased when the character before
\* it is not cased, lower-cased otherwise.
StrTitle(s) ==
    [i \in 1..Len(s) |->
        IF i > 1 /\ IsCased(s[i - 1]) THEN LowerChar(s[i]) ELSE UpperChar(s[i])]

\* s < t for Python strings: lexicographic by code point.
StrLess(s, t) ==
    \E i \in 1..(Len(t)) :
        /\ \A j \in 1..(i - 1) : j <= Len(s) /\ s[j] = t[j]
        /\ \/ i > Len(s)
           \/ Ord[s[i]] < Ord[t[i]]

wilkes == <<"w", "i", "l", "k", "e", "s">>

CliveWilkes == <<"C", "l", "i", "v", "e", " ", "W", "i", "l", "k", "e", "s">>

canonicalize_referee(name) ==
    LET name_clean == StrStrip(StrRemoveDots(StrLower(name)))
    IN  IF StrContains(name_clean, wilkes) THEN CliveWilkes
        ELSE StrTitle(name_clean)

---------------------------------------------------------------------------
(* create_ref_team_dataframe: parameters and table operations.             *)
Arsenal == <<"A", "r", "s", "e", "n", "a", "l">>
Chelsea == <<"C", "h", "e", "l", "s", "e", "a">>
Liverpool == <<"L", "i", "v", "e", "r", "p", "o", "o", "l">>
ManCity == <<"M", "a", "n", " ", "C", "i", "t", "y">>
ManUnited == <<"M", "a", "n", " ", "U", "n", "i", "t", "e", "d">>
Tottenham == <<"T", "o", "t", "t", "e", "n", "h", "a", "m">>
\* The default allow-list of the top6 parameter.
top6 == <<Arsenal, Chelsea, Liverpool, ManCity, ManUnited, Tottenham>>

\* head(30)
TopK == 30

SeqRange(s) == {s[i] : i \in 1..Len(s)}

\* x in lst
InList(x, lst) == \E i \in 1..Len(lst) : lst[i] = x

\* row.get(col, default): the default when the table has no such column.
Get(row, col, default) == IF col \in DOMAIN row THEN row[col] ELSE default

\* df[df['HomeTeam'].isin(top6) | df['AwayTeam'].isin(top6)]
InvolvesTop6(row) == InList(row.HomeTeam, top6) \/ InList(row.AwayTeam, top6)

FilterTop6Rows(t) == SelectSeq(t, InvolvesTop6)

\* df_top6['Referee_Canonical'] = df_top6['Referee'].apply(canonicalize_referee)
WithCanonical(row) ==
    [c \in (DOMAIN row) \cup {"Referee_Canonical"} |->
        IF c = "Referee_Canonical" THEN canonicalize_referee(row.Referee)
        ELSE row[c]]

AddCanonical(t) == [i \in 1..Len(t) |-> WithCanonical(t[i])]

RefsOf(t) == {t[i].Referee_Canonical : i \in 1..Len(t)}

\* Fault: count() instead of nunique().
GameCountsRows(t) ==
    [ref \in RefsOf(t) |->
        Cardinality({j \in 1..Len(t) : t[j].Referee_Canonical = ref})]

\* groupby('Referee_Canonical')['MatchID'].nunique(): GameCount per referee
GameCounts(t) ==
    [ref \in RefsOf(t) |->
        Cardinality({t[i].MatchID :
                        i \in {j \in 1..Len(t) : t[j].Referee_Canonical = ref}})]

\* sort_values(by='GameCount', ascending=False): the default sort is not
\* stable, so referees with equal counts come out in any order.
RECURSIVE SortedOrders(_, _)
SortedOrders(count, refs) ==
    IF refs = {} THEN {<<>>}
    ELSE LET top == {r \in refs : \A q \in refs : count[q] <= count[r]}
         IN  UNION {{<<r>> \o rest : rest \in SortedOrders(count, refs \ {r})} :
                    r \in top}

\* head(n)
HeadN(s, n) == IF Len(s) <= n THEN s ELSE SubSeq(s, 1, n)

\* The values top_30_refs can take.
Top30Choices(t) ==
    LET ref_games == GameCounts(t)
    IN  {HeadN(o, TopK) : o \in SortedOrders(ref_games, DOMAIN ref_games)}

\* Fault: step 4 left out.
KeepAllReferees(t, refs) == t

\* df_top6[df_top6['Referee_Canonical'].isin(top_30_refs)]
KeepReferees(t, refs) ==
    LET kept(row) == InList(row.Referee_Canonical, refs)
    IN  SelectSeq(t, kept)

\* The rows one match appends: the home side, then the away side.
HomeRow(row) ==
    [Referee |-> row.Referee_Canonical,
     Team |-> row.HomeTeam,
     Fouls |-> Get(row, "HomeTeamFouls", 0),
     YellowCards |-> Get(row, "HomeTeamYellowCards", 0),
     RedCards |-> Get(row, "HomeTeamRedCards", 0)]

AwayRow(row) ==
    [Referee |-> row.Referee_Canonical,
     Team |-> row.AwayTeam,
     Fouls |-> Get(row, "AwayTeamFouls", 0),
     YellowCards |-> Get(row, "AwayTeamYellowCards", 0),
     RedCards |-> Get(row, "AwayTeamRedCards", 0)]

\* Fault: the away side appended before the home side.
RowsOfMatchAwayFirst(row) ==
    (IF InList(row.AwayTeam, top6) THEN <<AwayRow(row)>> ELSE <<>>)
    \o (IF InList(row.HomeTeam, top6) THEN <<HomeRow(row)>> ELSE <<>>)

RowsOfMatch(row) ==
    (IF InList(row.HomeTeam, top6) THEN <<HomeRow(row)>> ELSE <<>>)
    \o (IF InList(row.AwayTeam, top6) THEN <<AwayRow(row)>> ELSE <<>>)

\* for _, row in df_top6.iterrows(): rows.append(...): the rows of matches
\* lo..hi in match order (halved, to keep the evaluation shallow).
RECURSIVE ExpandRange(_, _, _)
ExpandRange(t, lo, hi) ==
    IF lo > hi THEN <<>>
    ELSE IF lo = hi THEN RowsOfMatch(t[lo])
    ELSE LET mid == (lo + hi) \div 2
         IN  ExpandRange(t, lo, mid) \o ExpandRange(t, mid + 1, hi)

ExpandRows(t) == ExpandRange(t, 1, Len(t))

\* Ordering of the (Referee, Team) group keys.
KeyLess(a, b) ==
    \/ StrLess(a[1], b[1])
    \/ a[1] = b[1] /\ StrLess(a[2], b[2])

RECURSIVE SortKeys(_)
SortKeys(keys) ==
    IF keys = {} THEN <<>>
    ELSE LET k == CHOOSE a \in keys : \A b \in keys \ {a} : KeyLess(a, b)
         IN  <<k>> \o SortKeys(keys \ {k})

\* Sum of s[lo..hi] (halved, to keep the evaluation shallow).
RECURSIVE SumRange(_, _, _)
SumRange(s, lo, hi) ==
    IF lo > hi THEN 0
    ELSE IF lo = hi THEN s[lo]
    ELSE LET mid == (lo + hi) \div 2
         IN  SumRange(s, lo, mid) + SumRange(s, mid + 1, hi)

SumSeq(s) == SumRange(s, 1, Len(s))

\* The rows of one group.
GroupRows(t, key) ==
    LET inGroup(row) == <<row.Referee, row.Team>> = key
    IN  SelectSeq(t, inGroup)

ColumnSum(t, key, col) ==
    LET g == GroupRows(t, key)
    IN  SumSeq([i \in 1..Len(g) |-> g[i][col]])

\* groupby(['Referee', 'Team'], as_index=False).agg(sum): one row per key,
\* keys in sorted order.
GroupBySum(t) ==
    LET keys == SortKeys({<<t[i].Referee, t[i].Team>> : i \in 1..Len(t)})
    IN  [k \in 1..Len(keys) |->
            [Referee |-> keys[k][1],
             Team |-> keys[k][2],
             Fouls |-> ColumnSum(t, keys[k], "Fouls"),
             YellowCards |-> ColumnSum(t, keys[k], "YellowCards"),
             RedCards |-> ColumnSum(t, keys[k], "RedCards")]]

DupKey(row) == <<row.Team, row.Fouls, row.YellowCards, row.RedCards>>

\* drop_duplicates(subset=['Team', 'Fouls', 'YellowCards', 'RedCards']):
\* the first row of each subset value is kept.
RECURSIVE DropFrom(_, _, _)
DropFrom(t, i, kept) ==
    IF i > Len(t) THEN kept
    ELSE DropFrom(t, i + 1,
                  IF \E j \in 1..Len(kept) : DupKey(kept[j]) = DupKey(t[i])
                  THEN kept ELSE Append(kept, t[i]))

\* Fault: keep='last'.
DropDuplicateRowsKeepLast(t) ==
    LET last(i) == \A j \in (i + 1)..Len(t) : DupKey(t[j]) # DupKey(t[i])
        idx == {i \in 1..Len(t) : last(i)}
    IN  [k \in 1..Cardinality(idx) |->
            t[CHOOSE i \in idx : Cardinality({j \in idx : j <= i}) = k]]

DropDuplicateRows(t) == DropFrom(t, 1, <<>>)

\* Fault: the combinations zipped instead of multiplied.
AllCombosZipped(refs, teams) ==
    [k \in 1..(IF Len(refs) < Len(teams) THEN Len(refs) ELSE Len(teams)) |->
        <<refs[k], teams[k]>>]

\* pd.MultiIndex.from_product([all_refs, top6])
AllCombos(refs, teams) ==
    [k \in 1..(Len(refs) * Len(teams)) |->
        <<refs[((k - 1) \div Len(teams)) + 1], teams[((k - 1) % Len(teams)) + 1]>>]

\* Fault: fill_value=1.
ReindexRowFillOne(t, combo) ==
    LET hits == {i \in 1..Len(t) : <<t[i].Referee, t[i].Team>> = combo}
    IN  IF hits = {}
        THEN [Referee |-> combo[1], Team |-> combo[2],
              Fouls |-> 1, YellowCards |-> 1, RedCards |-> 1]
        ELSE t[CHOOSE i \in hits : TRUE]

\* set_index(['Referee', 'Team']).reindex(all_combos, fill_value=0).reset_index()
ReindexRow(t, combo) ==
    LET hits == {i \in 1..Len(t) : <<t[i].Referee, t[i].Team>> = combo}
    IN  IF hits = {}
        THEN [Referee |-> combo[1], Team |-> combo[2],
              Fouls |-> 0, YellowCards |-> 0, RedCards |-> 0]
        ELSE t[CHOOSE i \in hits : TRUE]

ReindexRows(t, refs, teams) ==
    LET combos == AllCombos(refs, teams)
    IN  [k \in 1..Len(combos) |-> ReindexRow(t, combos[k])]

features == <<"Fouls", "YellowCards", "RedCards">>

Total(t, col) == SumSeq([i \in 1..Len(t) |-> t[i][col]])

TotalSq(t, col) == SumSeq([i \in 1..Len(t) |-> t[i][col] * t[i][col]])

\* StandardScaler().fit_transform: z = (x - mean) / std with the population
\* standard deviation, kept exact as the pair <<n*x - sum, n*sumsq - sum^2>>
\* (z is the first over the square root of the second); a column of zero
\* variance is scaled by 1, which leaves x - mean = 0.
ScaledCell(n, s, sq, x) ==
    IF n * sq - s * s = 0 THEN <<0, 1>> ELSE <<n * x - s, n * sq - s * s>>

ScaleRows(t) ==
    LET s == <<Total(t, features[1]), Total(t, features[2]), Total(t, features[3])>>
        sq == <<TotalSq(t, features[1]), TotalSq(t, features[2]), TotalSq(t, features[3])>>
        k(c) == CHOOSE j \in 1..Len(features) : features[j] = c
    IN  [i \in 1..Len(t) |->
            [c \in DOMAIN t[i] |->
                IF InList(c, features)
                THEN ScaledCell(Len(t), s[k(c)], sq[k(c)], t[i][c])
                ELSE t[i][c]]]

---------------------------------------------------------------------------
(* The tables read from input_csv.                                         *)

\* Rows in the input table, beyond the fixed ones of InitTopK.
MaxMatches == 2

Everton == <<"E", "v", "e", "r", "t", "o", "n">>
Fulham == <<"F", "u", "l", "h", "a", "m">>
ArsenalLower == <<"a", "r", "s", "e", "n", "a", "l">>
ArsenalPadded == <<" ", "A", "r", "s", "e", "n", "a", "l", " ">>

Al == <<"A", "l">>
AlSpelled == <<" ", "a", "L", ".">>
AlUpper == <<"A", "L">>
Bo == <<"B", "o">>
RefWilkes == <<"c", ".", " ", "W", "i", "l", "k", "e", "s">>

StatColumns ==
    {"HomeTeamFouls", "HomeTeamYellowCards", "HomeTeamRedCards",
     "AwayTeamFouls", "AwayTeamYellowCards", "AwayTeamRedCards"}

KeyColumns == {"MatchID", "HomeTeam", "AwayTeam", "Referee"}

\* The per-side statistics (Fouls, YellowCards, RedCards) of a match.
StatPool ==
    { <<<<2, 1, 0>>, <<1, 0, 1>>>>,
      <<<<1, 0, 1>>, <<0, 0, 0>>>> }

Fixtures ==
    { <<Arsenal, Chelsea>>, <<Chelsea, Everton>>,
      <<Everton, Arsenal>>, <<Everton, Fulham>> }

MatchRecord(id, ref, fixture, stats) ==
    [MatchID |-> id, HomeTeam |-> fixture[1], AwayTeam |-> fixture[2],
     Referee |-> ref,
     HomeTeamFouls |-> stats[1][1], HomeTeamYellowCards |-> stats[1][2],
     HomeTeamRedCards |-> stats[1][3],
     AwayTeamFouls |-> stats[2][1], AwayTeamYellowCards |-> stats[2][2],
     AwayTeamRedCards |-> stats[2][3]]

\* A table with the given columns only.
Project(t, cols) == [i \in 1..Len(t) |-> [c \in cols |-> t[i][c]]]

\* Row i of a table gets MatchID i.
Numbered(t) == [i \in 1..Len(t) |-> [t[i] EXCEPT !.MatchID = i]]

Tables(pool) == UNION {[1..n -> pool] : n \in 0..MaxMatches}

MatchPool ==
    {MatchRecord(0, ref, fx, st) :
        ref \in {Al, AlSpelled, Bo}, fx \in Fixtures, st \in StatPool}

\* The statistics columns a table may have.
ColumnChoices == {StatColumns, StatColumns \ {"HomeTeamFouls", "AwayTeamRedCards"}}

PipelineStart(table) ==
    /\ pc = "filter"
    /\ df = table
    /\ df_top6 = <<>>
    /\ top_30_refs = <<>>
    /\ df_expanded = <<>>
    /\ df_grouped = <<>>
    /\ error = ""
    /\ output_csv = <<>>
    /\ p_pc = "idle"
    /\ p_df = <<>>
    /\ p_raw = <<>>
    /\ p_first = <<>>
    /\ p_runs = 0

Init ==
    \E t \in Tables(MatchPool), cols \in ColumnChoices :
        PipelineStart(Project(Numbered(t), KeyColumns \cup cols))

\* Tables with more referees than head(30) keeps: referee k of the fixed
\* part officiates k + 1 matches, the others come from a small pool in
\* which MatchIDs may repeat.
BusyName(k) == IF k <= 26 THEN <<"Z", Chars[28 + k]>> ELSE <<"Y", Chars[2 + k]>>

BusyMatches(k) ==
    [m \in 1..(k + 1) |->
        MatchRecord(100 * k + m, BusyName(k), <<Arsenal, Everton>>,
                    <<<<2, 1, 0>>, <<1, 0, 1>>>>)]

RECURSIVE BusyTable(_)
BusyTable(n) == IF n = 0 THEN <<>> ELSE BusyTable(n - 1) \o BusyMatches(n)

RivalPool ==
    {MatchRecord(id, ref, <<Chelsea, Arsenal>>, <<<<1, 0, 1>>, <<2, 1, 0>>>>) :
        id \in 1..2, ref \in {AlSpelled, Bo}}

InitTopK ==
    \E t \in Tables(RivalPool), n \in {TopK - 1, TopK} :
        PipelineStart(Project(t \o BusyTable(n), KeyColumns \cup StatColumns))

\* Tables whose referee and team names vary in case, dots and whitespace.
SpellingPool ==
    {MatchRecord(0, ref, fx, <<<<2, 1, 0>>, <<1, 0, 1>>>>) :
        ref \in {Al, AlSpelled, AlUpper, Bo, RefWilkes},
        fx \in {<<Arsenal, Everton>>, <<ArsenalLower, Everton>>,
                <<Everton, ArsenalPadded>>, <<Chelsea, Arsenal>>}}

InitSpelling ==
    \E t \in Tables(SpellingPool) :
        PipelineStart(Project(Numbered(t), KeyColumns \cup StatColumns))

---------------------------------------------------------------------------
(* create_ref_team_dataframe, one action per numbered step.                *)

\* Fault: the df_top6.empty check left out.
FilterTop6Unchecked ==
    /\ pc = "filter"
    /\ df_top6' = FilterTop6Rows(df)
    /\ pc' = "canonicalize"
    /\ UNCHANGED <<df, top_30_refs, df_expanded, df_grouped, error, output_csv>>
    /\ UNCHANGED prune_vars

\* 1) keep the matches with an allow-listed team; stop when none is left.
FilterTop6 ==
    /\ pc = "filter"
    /\ df_top6' = FilterTop6Rows(df)
    /\ IF df_top6' = <<>>
       THEN /\ error' = "ERROR: No matches found for the given top-6 team names."
            /\ pc' = "returned"
       ELSE /\ error' = error
            /\ pc' = "canonicalize"
    /\ UNCHANGED <<df, top_30_refs, df_expanded, df_grouped, output_csv>>
    /\ UNCHANGED prune_vars

\* 2) canonical referee names
Canonicalize ==
    /\ pc = "canonicalize"
    /\ df_top6' = AddCanonical(df_top6)
    /\ pc' = "rank"
    /\ UNCHANGED <<df, top_30_refs, df_expanded, df_grouped, error, output_csv>>
    /\ UNCHANGED prune_vars

\* 3) the top 30 referees by number of distinct MatchIDs
SelectTop30 ==
    /\ pc = "rank"
    /\ top_30_refs' \in Top30Choices(df_top6)
    /\ pc' = "keep"
    /\ UNCHANGED <<df, df_top6, df_expanded, df_grouped, error, output_csv>>
    /\ UNCHANGED prune_vars

\* 4) keep only the rows of the top 30 referees
KeepTop30 ==
    /\ pc = "keep"
    /\ df_top6' = KeepReferees(df_top6, top_30_refs)
    /\ pc' = "expand"
    /\ UNCHANGED <<df, top_30_refs, df_expanded, df_grouped, error, output_csv>>
    /\ UNCHANGED prune_vars

\* 5) one row per allow-listed side; stop when there is none.
Expand ==
    /\ pc = "expand"
    /\ df_expanded' = ExpandRows(df_top6)
    /\ IF df_expanded' = <<>>
       THEN /\ error' = "ERROR: No rows after expansion. Check your column names for fouls/cards."
            /\ pc' = "returned"
       ELSE /\ error' = error
            /\ pc' = "group"
    /\ UNCHANGED <<df, df_top6, top_30_refs, df_grouped, output_csv>>
    /\ UNCHANGED prune_vars

\* 6) sums by (Referee, Team)
Aggregate ==
    /\ pc = "group"
    /\ df_grouped' = GroupBySum(df_expanded)
    /\ pc' = "dedupe"
    /\ UNCHANGED <<df, df_top6, top_30_refs, df_expanded, error, output_csv>>
    /\ UNCHANGED prune_vars

\* 7) drop rows of a team whose three numbers repeat
DropDuplicates ==
    /\ pc = "dedupe"
    /\ df_grouped' = DropDuplicateRows(df_grouped)
    /\ pc' = "reindex"
    /\ UNCHANGED <<df, df_top6, top_30_refs, df_expanded, error, output_csv>>
    /\ UNCHANGED prune_vars

\* 8) one row per (top-30 referee, top6 team)
Reindex ==
    /\ pc = "reindex"
    /\ df_grouped' = ReindexRows(df_grouped, top_30_refs, top6)
    /\ pc' = "scale"
    /\ UNCHANGED <<df, df_top6, top_30_refs, df_expanded, error, output_csv>>
    /\ UNCHANGED prune_vars

\* 9) scale the numeric features
Scale ==
    /\ pc = "scale"
    /\ df_grouped' = ScaleRows(df_grouped)
    /\ pc' = "save"
    /\ UNCHANGED <<df, df_top6, top_30_refs, df_expanded, error, output_csv>>
    /\ UNCHANGED prune_vars

\* 10) write the CSV
Save ==
    /\ pc = "save"
    /\ output_csv' = df_grouped
    /\ pc' = "returned"
    /\ UNCHANGED <<df, df_top6, top_30_refs, df_expanded, df_grouped, error>>
    /\ UNCHANGED prune_vars

Next ==
    \/ FilterTop6
    \/ Canonicalize
    \/ SelectTop30
    \/ KeepTop30
    \/ Expand
    \/ Aggregate
    \/ DropDuplicates
    \/ Reindex
    \/ Scale
    \/ Save

Spec == Init /\ [][Next]_vars

SpecTopK == InitTopK /\ [][Next]_vars

SpecSpelling == InitSpelling /\ [][Next]_vars

---------------------------------------------------------------------------
(* data_processing.py: drop the fixed columns, then the rows with a null.  *)

\* labels of df.drop
DropLabels ==
    {"Time", "HalfTimeHomeTeamGoals", "HalfTimeAwayTeamGoals",
     "HalfTimeResult", "HomeTeamShots", "AwayTeamShots",
     "HomeTeamShotsOnTarget", "AwayTeamShotsOnTarget", "B365HomeTeam",
     "B365AwayTeam", "B365Draw", "B365Over2.5Goals", "B365Under2.5Goals",
     "MarketMaxHomeTeam", "MarketMaxDraw", "MarketMaxAwayTeam",
     "MarketAvgHomeTeam", "MarketAvgDraw", "MarketAvgAwayTeam",
     "MarketMaxOver2.5Goals", "MarketMaxUnder2.5Goals",
     "MarketAvgOver2.5Goals", "MarketAvgUnder2.5Goals", "HomeTeamPoints",
     "AwayTeamPoints"}

\* A cell is <<v>> for a value v and <<>> when the CSV field is empty,
\* which read_csv reads as NaN.
NaN == <<>>

\* Prunings of one table, the first included.
MaxRuns == 2

RawColumns == KeyColumns \cup StatColumns \cup DropLabels

\* Rows of the raw table: complete, or with one or two empty fields.
RawRow(empty) ==
    [c \in RawColumns |-> IF c \in empty THEN NaN ELSE <<c>>]

RawRowPool ==
    {RawRow(e) : e \in {{}, {"Time"}, {"Referee"}, {"B365Draw", "HomeTeamFouls"}}}

RawNumbered(t) == [i \in 1..Len(t) |-> [t[i] EXCEPT !.MatchID = <<i>>]]

\* df.drop(labels, axis=1): KeyError when a label is not a column.
DropFails(t, cols) == ~(DropLabels \subseteq cols)

DropColumns(t, cols) == Project(t, cols \ DropLabels)

HasNoNull(row) == \A c \in DOMAIN row : row[c] # NaN

\* Fault: dropna(how='all').
HasSomeValue(row) == \E c \in DOMAIN row : row[c] # NaN

DropNAAll(t) == SelectSeq(t, HasSomeValue)

\* df.dropna(): the rows without a null, in order.
DropNA(t) == SelectSeq(t, HasNoNull)

InitPrune ==
    \E t \in Tables(RawRowPool), cols \in {RawColumns, RawColumns \ {"Time"}} :
        /\ p_pc = "drop"
        /\ p_raw = [cols |-> cols, rows |-> Project(RawNumbered(t), cols)]
        /\ p_df = p_raw
        /\ p_first = <<>>
        /\ p_runs = 1
        /\ pc = "idle"
        /\ df = <<>>
        /\ df_top6 = <<>>
        /\ top_30_refs = <<>>
        /\ df_expanded = <<>>
        /\ df_grouped = <<>>
        /\ error = ""
        /\ output_csv = <<>>

PruneDrop ==
    /\ p_pc = "drop"
    /\ IF DropFails(p_df.rows, p_df.cols)
       THEN /\ p_pc' = "KeyError"
            /\ p_df' = p_df
       ELSE /\ p_pc' = "dropna"
            /\ p_df' = [cols |-> p_df.cols \ DropLabels,
                        rows |-> DropColumns(p_df.rows, p_df.cols)]
    /\ UNCHANGED <<p_raw, p_first, p_runs>>
    /\ UNCHANGED pipeline_vars

PruneDropNA ==
    /\ p_pc = "dropna"
    /\ p_df' = [p_df EXCEPT !.rows = DropNA(p_df.rows)]
    /\ p_first' = IF p_runs = 1 THEN p_df' ELSE p_first
    /\ p_pc' = "done"
    /\ UNCHANGED <<p_raw, p_runs>>
    /\ UNCHANGED pipeline_vars

\* The pruning applied again, to its own result.
PruneAgain ==
    /\ p_pc = "done"
    /\ p_runs < MaxRuns
    /\ p_runs' = p_runs + 1
    /\ p_pc' = "drop"
    /\ UNCHANGED <<p_raw, p_df, p_first>>
    /\ UNCHANGED pipeline_vars

NextPrune ==
    \/ PruneDrop
    \/ PruneDropNA
    \/ PruneAgain

SpecPrune == InitPrune /\ [][NextPrune]_vars

---------------------------------------------------------------------------
(* Properties of create_ref_team_dataframe.                                *)

Retained == SeqRange(top_30_refs)

Top6Set == SeqRange(top6)

Stats(row) == <<row.Fouls, row.YellowCards, row.RedCards>>

HomeColumn ==
    [Fouls |-> "HomeTeamFouls", YellowCards |-> "HomeTeamYellowCards",
     RedCards |-> "HomeTeamRedCards"]

AwayColumn ==
    [Fouls |-> "AwayTeamFouls", YellowCards |-> "AwayTeamYellowCards",
     RedCards |-> "AwayTeamRedCards"]

\* Value of a raw column, 0 when the table has no such column.
Raw(row, col) == IF col \in DOMAIN row THEN row[col] ELSE 0

\* The input matches officiated by referee r in which team t played.
MatchesOf(r, t) ==
    {i \in 1..Len(df) :
        /\ canonicalize_referee(df[i].Referee) = r
        /\ df[i].HomeTeam = t \/ df[i].AwayTeam = t}

\* Sum of the raw side values of team t over the matches of referee r.
RawSum(r, t, col) ==
    SumSeq([i \in 1..Len(df) |->
        IF i \in MatchesOf(r, t)
        THEN (IF df[i].HomeTeam = t THEN Raw(df[i], HomeColumn[col]) ELSE 0)
             + (IF df[i].AwayTeam = t THEN Raw(df[i], AwayColumn[col]) ELSE 0)
        ELSE 0])

SomeMatchAllowListed == \E i \in 1..Len(df) : InvolvesTop6(df[i])

\* C1: when some match involves an allow-listed team, the reindexed table
\* has exactly one row for every pair of a retained referee and an
\* allow-listed team and no other row, so it has
\* (retained referees) * (allow-listed teams) rows; and the run of such an
\* input ends with a table of that many rows written.
C1_OneRowPerPair ==
    /\ pc = "scale" =>
        /\ Len(df_grouped) = Cardinality(Retained) * Cardinality(Top6Set)
        /\ \A r \in Retained, t \in Top6Set :
              Cardinality({i \in 1..Len(df_grouped) :
                  df_grouped[i].Referee = r /\ df_grouped[i].Team = t}) = 1
        /\ \A i \in 1..Len(df_grouped) :
              df_grouped[i].Referee \in Retained /\ df_grouped[i].Team \in Top6Set
    /\ (pc = "returned" /\ SomeMatchAllowListed) =>
        /\ Retained # {}
        /\ Len(output_csv) = Cardinality(Retained) * Cardinality(Top6Set)

\* Two referees retained, and a pair among the rows that no match contributes to.
C1_Witness ==
    /\ pc = "scale"
    /\ Cardinality(Retained) = 2
    /\ \E i \in 1..Len(df_grouped) :
          MatchesOf(df_grouped[i].Referee, df_grouped[i].Team) = {}
    /\ \E i \in 1..Len(df_grouped) : df_grouped[i].Fouls > 0

\* C2: in the table before scaling, each of Fouls, YellowCards and RedCards
\* of the row (r, t) is the sum of the raw side values of t over all matches
\* officiated by r in which t played.
C2_Additivity ==
    pc = "scale" =>
        \A i \in 1..Len(df_grouped) :
            \A col \in SeqRange(features) :
                df_grouped[i][col]
                    = RawSum(df_grouped[i].Referee, df_grouped[i].Team, col)

\* C3: in the table before scaling, a pair of a retained referee and an
\* allow-listed team with no input match of that referee and that team has
\* a row, and its three statistics are 0.
C3_ZeroFill ==
    pc = "scale" =>
        \A r \in Retained, t \in Top6Set :
            MatchesOf(r, t) = {} =>
                /\ \E i \in 1..Len(df_grouped) :
                      df_grouped[i].Referee = r /\ df_grouped[i].Team = t
                /\ \A i \in 1..Len(df_grouped) :
                      (df_grouped[i].Referee = r /\ df_grouped[i].Team = t)
                          => Stats(df_grouped[i]) = <<0, 0, 0>>

\* A referee with a match of one allow-listed team and none of another.
C3_Witness ==
    /\ pc = "scale"
    /\ \E r \in Retained :
          /\ MatchesOf(r, Chelsea) = {}
          /\ MatchesOf(r, Arsenal) # {}
          /\ \E i \in 1..Len(df_grouped) :
                /\ df_grouped[i].Referee = r
                /\ df_grouped[i].Team = Arsenal
                /\ df_grouped[i].Fouls > 0

\* Rows a match adds: one per allow-listed side.
SideCount(row) ==
    (IF row.HomeTeam \in Top6Set THEN 1 ELSE 0)
    + (IF row.AwayTeam \in Top6Set THEN 1 ELSE 0)

\* Rows added by the matches before match i.
RowsBefore(t, i) == SumSeq([j \in 1..(i - 1) |-> SideCount(t[j])])

\* C4: the expansion emits, for every match it processes, a row (Referee,
\* Team, Fouls, YellowCards, RedCards) of the home side exactly when
\* HomeTeam is allow-listed and of the away side exactly when AwayTeam is,
\* in match order with the home row first, reading an absent column as 0.
C4_Expansion ==
    pc = "group" =>
        /\ Len(df_expanded) = RowsBefore(df_top6, Len(df_top6) + 1)
        /\ \A i \in 1..Len(df_top6) :
            LET m == df_top6[i]
                at == RowsBefore(df_top6, i)
                home == m.HomeTeam \in Top6Set
            IN  /\ home =>
                      df_expanded[at + 1] =
                          [Referee |-> m.Referee_Canonical,
                           Team |-> m.HomeTeam,
                           Fouls |-> Raw(m, "HomeTeamFouls"),
                           YellowCards |-> Raw(m, "HomeTeamYellowCards"),
                           RedCards |-> Raw(m, "HomeTeamRedCards")]
                /\ m.AwayTeam \in Top6Set =>
                      df_expanded[at + (IF home THEN 2 ELSE 1)] =
                          [Referee |-> m.Referee_Canonical,
                           Team |-> m.AwayTeam,
                           Fouls |-> Raw(m, "AwayTeamFouls"),
                           YellowCards |-> Raw(m, "AwayTeamYellowCards"),
                           RedCards |-> Raw(m, "AwayTeamRedCards")]

\* A match with both sides allow-listed followed by one with the away side
\* only, in a table without the HomeTeamFouls column.
C4_Witness ==
    /\ pc = "group"
    /\ Len(df_top6) = 2
    /\ SideCount(df_top6[1]) = 2
    /\ SideCount(df_top6[2]) = 1
    /\ df_top6[2].AwayTeam \in Top6Set
    /\ "HomeTeamFouls" \notin DOMAIN df_top6[1]
    /\ Len(df_expanded) = 3

\* C5: when no input match involves an allow-listed team, or the expansion
\* yields no row, the error is reported and the run ends there: no later
\* stage has run and no CSV is written.
C5_EmptyResult ==
    /\ (pc # "idle" /\ ~SomeMatchAllowListed) =>
          /\ pc \in {"filter", "returned"}
          /\ top_30_refs = <<>> /\ df_expanded = <<>> /\ df_grouped = <<>>
          /\ output_csv = <<>>
          /\ pc = "returned" => error # ""
    /\ (pc \notin {"idle", "filter", "canonicalize", "rank", "keep", "expand"}
        /\ df_expanded = <<>>) =>
          /\ pc = "returned" /\ error # ""
          /\ df_grouped = <<>> /\ output_csv = <<>>
    /\ error # "" => pc = "returned" /\ df_grouped = <<>> /\ output_csv = <<>>

\* A run ended by the error on a table that has matches.
C5_Witness ==
    /\ pc = "returned"
    /\ error # ""
    /\ Len(df) = 2
    /\ output_csv = <<>>

\* The (canonical referee, MatchID) pairs of the matches that involve an
\* allow-listed team.
RankedPairs ==
    {<<canonicalize_referee(df[i].Referee), df[i].MatchID>> :
        i \in {j \in 1..Len(df) : InvolvesTop6(df[j])}}

AfterRanking ==
    \/ pc \in {"keep", "expand", "group", "dedupe", "reindex", "scale", "save"}
    \/ pc = "returned" /\ error = ""

\* The input rows handed on by step 4, for a given retained set.
PassedOn(kept) ==
    LET pass(row) ==
            InvolvesTop6(row) /\ canonicalize_referee(row.Referee) \in kept
    IN  SelectSeq(df, pass)

\* C6: the retained referees are the first 30 of the canonical referee
\* names ranked by their number of distinct MatchIDs among the matches with
\* an allow-listed team, descending: there are min(30, referees) of them,
\* no referee left out has more distinct matches than a retained one, and
\* exactly the matches of retained referees reach the expansion.
C6_TopK ==
    AfterRanking =>
        LET pairs == RankedPairs
            refs == {q[1] : q \in pairs}
            n(r) == Cardinality({q \in pairs : q[1] = r})
            len == Len(top_30_refs)
        IN  /\ len = (IF Cardinality(refs) < 30 THEN Cardinality(refs) ELSE 30)
            /\ Cardinality(Retained) = len
            /\ Retained \subseteq refs
            /\ \A i \in 1..(len - 1) : n(top_30_refs[i]) >= n(top_30_refs[i + 1])
            /\ \A out \in refs \ Retained : \A in \in Retained : n(out) <= n(in)
            /\ pc = "expand" =>
                  Project(df_top6, DOMAIN df[1]) = PassedOn(Retained)

\* More than 30 referees, one of them left out together with its matches.
C6_Witness ==
    /\ pc = "expand"
    /\ Len(top_30_refs) = 30
    /\ Cardinality({q[1] : q \in RankedPairs}) = 32
    /\ Len(df_top6) < Len(df)

\* Case-insensitive comparison after trimming.
Fold(name) == StrStrip(StrLower(name))

\* Sum of the raw side values over the sides whose referee canonicalizes to
\* r and whose team is t up to case and surrounding whitespace.
FoldedSum(r, t, col) ==
    SumSeq([i \in 1..Len(df) |->
        IF canonicalize_referee(df[i].Referee) = r
        THEN (IF Fold(df[i].HomeTeam) = Fold(t)
              THEN Raw(df[i], HomeColumn[col]) ELSE 0)
             + (IF Fold(df[i].AwayTeam) = Fold(t)
                THEN Raw(df[i], AwayColumn[col]) ELSE 0)
        ELSE 0])

\* C7: the (Referee, Team) grouping key is compared case-insensitively
\* after trimming: sides whose referee and team names differ only in case
\* or surrounding whitespace are summed into one aggregated row, and no two
\* aggregated rows have keys that differ only that way.
C7_FoldedKeys ==
    pc = "dedupe" =>
        /\ \A i \in 1..Len(df_grouped) : \A col \in SeqRange(features) :
              df_grouped[i][col]
                  = FoldedSum(df_grouped[i].Referee, df_grouped[i].Team, col)
        /\ \A i, j \in 1..Len(df_grouped) :
              (/\ Fold(df_grouped[i].Referee) = Fold(df_grouped[j].Referee)
               /\ Fold(df_grouped[i].Team) = Fold(df_grouped[j].Team)) => i = j

\* Aggregated statistics of a pair, from the expanded rows.
HasRows(r, t) == \E i \in 1..Len(df_expanded) :
    df_expanded[i].Referee = r /\ df_expanded[i].Team = t

Agg(r, t) ==
    LET g == [i \in 1..Len(df_expanded) |->
                 IF df_expanded[i].Referee = r /\ df_expanded[i].Team = t
                 THEN Stats(df_expanded[i]) ELSE <<0, 0, 0>>]
    IN  <<SumSeq([i \in 1..Len(g) |-> g[i][1]]),
          SumSeq([i \in 1..Len(g) |-> g[i][2]]),
          SumSeq([i \in 1..Len(g) |-> g[i][3]])>>

\* A referee earlier in sorted order has the same totals for the team.
Shadowed(r, t) ==
    \E i \in 1..Len(df_expanded) :
        /\ df_expanded[i].Team = t
        /\ StrLess(df_expanded[i].Referee, r)
        /\ Agg(df_expanded[i].Referee, t) = Agg(r, t)

\* C9: of the aggregated rows of a team with the same three totals only
\* the first in (Referee, Team) order survives the duplicate-dropping step;
\* a later referee's row is removed, and reindexing re-creates it with all
\* three statistics 0 although that referee officiated the team.
C9_DuplicateDropping ==
    /\ pc = "reindex" =>
          /\ \A i \in 1..Len(df_grouped) :
                LET g == df_grouped[i]
                IN  /\ HasRows(g.Referee, g.Team)
                    /\ ~Shadowed(g.Referee, g.Team)
                    /\ Stats(g) = Agg(g.Referee, g.Team)
          /\ \A i \in 1..Len(df_expanded) :
                LET e == df_expanded[i]
                IN  ~Shadowed(e.Referee, e.Team) =>
                        \E k \in 1..Len(df_grouped) :
                            /\ df_grouped[k].Referee = e.Referee
                            /\ df_grouped[k].Team = e.Team
    /\ pc = "scale" =>
          \A i \in 1..Len(df_grouped) :
              LET g == df_grouped[i]
              IN  Stats(g) =
                      IF HasRows(g.Referee, g.Team) /\ ~Shadowed(g.Referee, g.Team)
                      THEN Agg(g.Referee, g.Team)
                      ELSE <<0, 0, 0>>

\* A referee with non-zero totals for a team whose reindexed row is all 0.
C9_Witness ==
    /\ pc = "scale"
    /\ \E i \in 1..Len(df_grouped) :
          /\ HasRows(df_grouped[i].Referee, df_grouped[i].Team)
          /\ Agg(df_grouped[i].Referee, df_grouped[i].Team) # <<0, 0, 0>>
          /\ Stats(df_grouped[i]) = <<0, 0, 0>>

\* C10: every key of the table handed to the reindexing step is a pair of
\* a retained referee and an allow-listed team, every row of that table is
\* in the reindexed table unchanged, and the rows added are all-zero rows
\* of pairs that were absent.
C10_ReindexFrame ==
    [][pc = "reindex" =>
        /\ \A i \in 1..Len(df_grouped) :
              /\ df_grouped[i].Referee \in Retained
              /\ df_grouped[i].Team \in Top6Set
              /\ \E k \in 1..Len(df_grouped') : df_grouped'[k] = df_grouped[i]
        /\ \A k \in 1..Len(df_grouped') :
              \/ \E i \in 1..Len(df_grouped) : df_grouped[i] = df_grouped'[k]
              \/ /\ Stats(df_grouped'[k]) = <<0, 0, 0>>
                 /\ ~\E i \in 1..Len(df_grouped) :
                        /\ df_grouped[i].Referee = df_grouped'[k].Referee
                        /\ df_grouped[i].Team = df_grouped'[k].Team]_vars

\* A reindexed table of 30 referees, with copied and with added rows, from
\* an input that has a referee who was not retained.
C10_Witness ==
    /\ pc = "scale"
    /\ Len(top_30_refs) = 30
    /\ \E i \in 1..Len(df) :
          InvolvesTop6(df[i]) /\ canonicalize_referee(df[i].Referee) \notin Retained
    /\ \E k \in 1..Len(df_grouped) : df_grouped[k].Fouls > 0
    /\ \E k \in 1..Len(df_grouped) :
          Stats(df_grouped[k]) = <<0, 0, 0>> /\ df_grouped[k].Team = Chelsea

---------------------------------------------------------------------------
(* Properties of the pruning.                                              *)

PrunedColumns == p_raw.cols \ DropLabels

\* Indices of the raw rows without a null in a column that remains.
Complete ==
    {i \in 1..Len(p_raw.rows) : \A c \in PrunedColumns : p_raw.rows[i][c] # NaN}

\* C8 as stated: pruning applied twice in sequence yields the table of one
\* pruning.
C8_Idempotent ==
    (p_runs = 2 /\ p_pc \in {"done", "KeyError"}) =>
        (p_pc = "done" /\ p_df = p_first)

\* C8 amended: one pruning yields the raw table without the drop-list
\* columns and without the rows that have a null in a remaining column, in
\* input order, and dropping the rows with nulls again changes nothing; a
\* second pruning of that result yields no table, its column drop raises
\* KeyError.
C8_PruneOnce ==
    /\ (p_runs = 1 /\ p_pc = "done") =>
          /\ p_df.cols = PrunedColumns
          /\ Len(p_df.rows) = Cardinality(Complete)
          /\ \A k \in 1..Len(p_df.rows) :
                LET i == CHOOSE i \in Complete :
                             Cardinality({j \in Complete : j <= i}) = k
                IN  p_df.rows[k] = [c \in PrunedColumns |-> p_raw.rows[i][c]]
          /\ SelectSeq(p_df.rows, HasNoNull) = p_df.rows
          /\ p_first = p_df
    /\ (p_runs = 2 /\ p_pc # "drop") => (p_pc = "KeyError" /\ p_df = p_first)

\* A second pruning ended by KeyError after a first one that dropped a row
\* and kept one.
C8_Witness ==
    /\ p_runs = 2
    /\ p_pc = "KeyError"
    /\ Len(p_first.rows) >= 1
    /\ Len(p_first.rows) < Len(p_raw.rows)

====
